---- MODULE Spec2Model ----
(***************************************************************************)
(* Model of mail_from_formidable_forms_extractor.py: one run of main().    *)
(*                                                                         *)
(* The run opens one IMAP session, logs in, selects the mailbox            *)
(* read-only, searches ALL, fetches and processes every message, closes    *)
(* the mailbox, leaves the session scope and then writes the CSV file.     *)
(* The IMAP server, the network and the file system are the environment:   *)
(* every call into them may succeed or fail, and the model draws the       *)
(* outcome nondeterministically.                                           *)
(*                                                                         *)
(* Strings that the program compares are modelled as sequences of tokens   *)
(* ("<", ">", ",", " " and words), so that the header parsing of the       *)
(* e-mail library is a real conversion and not the identity.               *)
(***************************************************************************)
EXTENDS Integers, Sequences, FiniteSets, TLC

\* Largest number of messages in the mailbox (bound of the model).
MaxMessages == 2

VARIABLES
    mailbox,        \* the messages on the server, by message sequence number
    srvMsgs,        \* server: sequence numbers still in the mailbox
    srvFlags,       \* server: flags of every message
    flags0,         \* history: the flags before the run
    pc,             \* position of the run
    state,          \* imaplib's connection state
    readonly,       \* server: the mailbox was opened with EXAMINE
    authed,         \* server: the session has logged in
    cmds,           \* history: IMAP commands issued, in order
    ids,            \* the list data[0].split() the for loop iterates
    data,           \* the variable "data" (rebound by every fetch)
    i,              \* loop position (0: loop not entered)
    registrations,  \* the list "registrations"
    origin,         \* history: message number of every entry of registrations
    notices,        \* lines printed on standard output
    handled,        \* history: what happened to every fetched message
    exc,            \* the exception that is propagating ("none")
    connOpened,     \* history: IMAP4_SSL objects constructed
    logouts,        \* history: calls of logout()
    fileLog,        \* history: operations on exported_registrations.csv
    csv             \* rows of exported_registrations.csv written by this run

vars == <<mailbox, srvMsgs, srvFlags, flags0, pc, state, readonly, authed,
          cmds, ids, data, i, registrations, origin, notices, handled, exc, connOpened,
          logouts, fileLog, csv>>

Range(s) == {s[p] : p \in 1..Len(s)}

(***************************************************************************)
(* Strings of the program.                                                 *)
(***************************************************************************)
\* Python's None, as msg[...] returns it for an absent header.
NONE == <<"None">>

SOME_ADDRESS == "some_address@example.org"
ANOTHER_ADDRESS == "another_address@example.org"
FURTHER_ADDRESS == "further_address@example.org"

\* The four literals check_if_message_to_skip compares with.
ENVELOPE_FROM == <<"<", SOME_ADDRESS, ">">>
ENVELOPE_TO == <<"<", ANOTHER_ADDRESS, ">">>
FROM == <<"<", SOME_ADDRESS, ">">>
TO == <<ANOTHER_ADDRESS, ",", " ", FURTHER_ADDRESS>>

FieldNames == <<"eintrags_id", "key", "anzahl_personen", "zahlungsstatus",
                "name", "vorname", "mail", "telefon", "sonstiges", "club",
                "teilnehmer_2", "teilnehmer_3", "teilnehmer_4",
                "teilnehmer_5", "teilnehmer_6", "teilnehmer_7">>

(***************************************************************************)
(* email.message_from_string(decoded, policy=policy.strict).               *)
(* policy.strict is an EmailPolicy: msg[name] is a header object whose     *)
(* string value is the parsed, re-rendered header.  From and To are        *)
(* address headers: every mailbox is rendered by str(Address), which is    *)
(* the bare addr-spec when there is no display name and                    *)
(* "name <addr-spec>" otherwise, and the mailboxes are joined by ", ".     *)
(* Other headers (X-Envelope-From, X-Envelope-To) are unstructured: the    *)
(* value is kept, leading white space removed.                             *)
(***************************************************************************)
RECURSIVE SplitOnComma(_)
SplitOnComma(s) ==
    IF \A p \in 1..Len(s) : s[p] # ","
    THEN <<s>>
    ELSE LET p == CHOOSE q \in 1..Len(s) :
                      s[q] = "," /\ \A r \in 1..(q - 1) : s[r] # ","
         IN <<SubSeq(s, 1, p - 1)>> \o SplitOnComma(SubSeq(s, p + 1, Len(s)))

RECURSIVE LStrip(_)
LStrip(s) == IF s # <<>> /\ Head(s) = " " THEN LStrip(Tail(s)) ELSE s

RECURSIVE RStrip(_)
RStrip(s) ==
    IF s # <<>> /\ s[Len(s)] = " " THEN RStrip(SubSeq(s, 1, Len(s) - 1)) ELSE s

\* str(Address): an angle-addr without display name loses its brackets.
AddressStr(mbox) ==
    IF Len(mbox) = 3 /\ mbox[1] = "<" /\ mbox[3] = ">"
    THEN <<mbox[2]>>
    ELSE mbox

RECURSIVE JoinAddresses(_)
JoinAddresses(list) ==
    IF list = <<>> THEN <<>>
    ELSE IF Len(list) = 1 THEN Head(list)
    ELSE Head(list) \o <<",", " ">> \o JoinAddresses(Tail(list))

AddressHeaderValue(wire) ==
    IF wire = NONE THEN NONE
    ELSE LET parts == SplitOnComma(wire)
             mboxes == [p \in 1..Len(parts) |->
                            AddressStr(RStrip(LStrip(parts[p])))]
         IN JoinAddresses(SelectSeq(mboxes, LAMBDA m : m # <<>>))

UnstructuredHeaderValue(wire) == IF wire = NONE THEN NONE ELSE LStrip(wire)

message_from_string(m) ==
    [xef |-> UnstructuredHeaderValue(m.xef),
     xet |-> UnstructuredHeaderValue(m.xet),
     hfrom |-> AddressHeaderValue(m.hfrom),
     hto |-> AddressHeaderValue(m.hto),
     text |-> m.text]

(***************************************************************************)
(* check_if_message_to_skip                                                *)
(***************************************************************************)
check_if_message_to_skip(msg) ==
    \/ msg.xef # ENVELOPE_FROM
    \/ msg.xet # ENVELOPE_TO
    \/ msg.hfrom # FROM
    \/ msg.hto # TO

\* The line printed for a skipped message.
SkipNotice(msg) == [from |-> msg.xef, to |-> msg.xet]

(***************************************************************************)
(* EXTRACTION_REGEXP.search(str(msg)).  The text of a message is modelled  *)
(* as the three parts the pattern reads: the MIME preamble, the CSV header *)
(* line and the 16 quoted fields of the data line.                         *)
(***************************************************************************)
\* Strings matching \d+ among the field values of the model.
DigitStrings == {"1", "2", "3", "17"}

Digits(f) == f \in DigitStrings
NonEmpty(f) == f # ""

EXTRACTION_REGEXP_search(text) ==
    IF /\ text.preamble
       /\ text.columns = FieldNames
       /\ Len(text.fields) = 16
       /\ Digits(text.fields[1])
       /\ NonEmpty(text.fields[2])
       /\ Digits(text.fields[3])
       /\ NonEmpty(text.fields[5])
       /\ NonEmpty(text.fields[6])
       /\ NonEmpty(text.fields[7])
    THEN [matched |-> TRUE,
          groupdict |-> [n \in Range(FieldNames) |->
                           text.fields[CHOOSE p \in 1..16 : FieldNames[p] = n]]]
    ELSE [matched |-> FALSE, groupdict |-> [n \in Range(FieldNames) |-> ""]]

(***************************************************************************)
(* class RegistrationData                                                  *)
(***************************************************************************)
RegistrationData(d) ==
    [eintrags_id |-> d["eintrags_id"], key |-> d["key"],
     anzahl_personen |-> d["anzahl_personen"],
     zahlungsstatus |-> d["zahlungsstatus"], name |-> d["name"],
     vorname |-> d["vorname"], mail |-> d["mail"], telefon |-> d["telefon"],
     sonstiges |-> d["sonstiges"], club |-> d["club"],
     teilnehmer_2 |-> d["teilnehmer_2"], teilnehmer_3 |-> d["teilnehmer_3"],
     teilnehmer_4 |-> d["teilnehmer_4"], teilnehmer_5 |-> d["teilnehmer_5"],
     teilnehmer_6 |-> d["teilnehmer_6"], teilnehmer_7 |-> d["teilnehmer_7"]]

write_header_to_csv == FieldNames

write_to_csv(self) ==
    <<self.eintrags_id, self.key, self.anzahl_personen, self.zahlungsstatus,
      self.name, self.vorname, self.mail, self.telefon, self.sonstiges,
      self.club, self.teilnehmer_2, self.teilnehmer_3, self.teilnehmer_4,
      self.teilnehmer_5, self.teilnehmer_6, self.teilnehmer_7>>

(***************************************************************************)
(* The mailboxes the model runs on.                                        *)
(***************************************************************************)
Text(pre, fields) == [preamble |-> pre, columns |-> FieldNames, fields |-> fields]

\* The data line of the example of the specification.
Fields1 == <<"1", "ABC123", "2", "paid", "Doe", "Jane", "jane@example.org",
             "", "", "", "", "", "", "", "", "">>
\* A data line with 16 different values, one of them with a comma.
Fields2 == <<"17", "K9", "3", "open", "Roe", "Max", "max@example.org",
             "0123", "a, b", "Club", "P2", "P3", "P4", "P5", "P6", "P7">>
\* A data line the pattern rejects: the identifier is not a number and the
\* name is empty.
FieldsBad == <<"x1", "K9", "3", "open", "", "Max", "max@example.org",
               "0123", "", "", "", "", "", "", "", "">>

Message(xef, xet, hfrom, hto, text) ==
    [xef |-> xef, xet |-> xet, hfrom |-> hfrom, hto |-> hto, text |-> text,
     utf8 |-> TRUE, wellformed |-> TRUE]

\* The four headers are exactly the configured strings.
Listed(text) == Message(ENVELOPE_FROM, ENVELOPE_TO, FROM, TO, text)

MessageKinds ==
    { Listed(Text(TRUE, Fields1)),
      Listed(Text(TRUE, Fields2)),
      Listed(Text(TRUE, FieldsBad)),
      \* From with a display name
      Message(ENVELOPE_FROM, ENVELOPE_TO,
              <<"Jane", " ", "<", SOME_ADDRESS, ">">>, TO,
              Text(TRUE, Fields1)),
      \* another envelope sender; To written without the space
      Message(<<"<", "other@example.org", ">">>, ENVELOPE_TO, FROM,
              <<ANOTHER_ADDRESS, ",", FURTHER_ADDRESS>>, Text(TRUE, Fields2)),
      \* none of the four headers, no registration in the text
      Message(NONE, NONE, NONE, NONE, Text(FALSE, FieldsBad)),
      \* bytes that are not UTF-8
      [Listed(Text(TRUE, Fields1)) EXCEPT !.utf8 = FALSE],
      \* headers the strict policy rejects
      [Listed(Text(TRUE, Fields1)) EXCEPT !.wellformed = FALSE] }

Mailboxes == UNION {[1..n -> MessageKinds] : n \in 0..MaxMessages}

Init ==
    /\ mailbox \in Mailboxes
    /\ flags0 \in [1..Len(mailbox) -> {{}, {"Deleted"}}]
    /\ srvFlags = flags0
    /\ srvMsgs = [k \in 1..Len(mailbox) |-> k]
    /\ pc = "connect"
    /\ state = "NONE"
    /\ readonly = FALSE
    /\ authed = FALSE
    /\ cmds = <<>>
    /\ ids = <<>>
    /\ data = <<>>
    /\ i = 0
    /\ registrations = <<>>
    /\ origin = <<>>
    /\ notices = <<>>
    /\ handled = <<>>
    /\ exc = "none"
    /\ connOpened = 0
    /\ logouts = 0
    /\ fileLog = <<>>
    /\ csv = <<>>

srvVars == <<mailbox, srvMsgs, srvFlags, flags0, readonly, authed>>
loopVars == <<ids, data, i, registrations, origin, notices, handled>>
fileVars == <<fileLog, csv>>

\* An IMAP command without argument, and FETCH with its message set.
Cmd(name) == [cmd |-> name, arg |-> -1]
Fetch(idx) == [cmd |-> "FETCH", arg |-> idx]

(***************************************************************************)
(* retrieve_registrations_from_server                                      *)
(***************************************************************************)
\* with IMAP4_SSL(...) as imap_conn: the constructor connects (TLS
\* handshake, greeting, 10 s timeout) or raises before the scope is entered.
Connect ==
    /\ pc = "connect"
    /\ \E ok \in BOOLEAN :
         IF ok
         THEN /\ connOpened' = connOpened + 1
              /\ state' = "NONAUTH"
              /\ pc' = "login"
              /\ exc' = exc
         ELSE /\ exc' = "OSError"
              /\ pc' = "failed"
              /\ UNCHANGED <<connOpened, state>>
    /\ UNCHANGED <<srvVars, loopVars, fileVars, cmds, logouts>>

\* imap_conn.login(user, getpass(...)): raises unless the answer is OK.
Login ==
    /\ pc = "login"
    /\ cmds' = Append(cmds, Cmd("LOGIN"))
    /\ \E ok \in BOOLEAN :
         IF ok
         THEN state' = "AUTH" /\ authed' = TRUE /\ pc' = "select" /\ exc' = exc
         ELSE state' = state /\ authed' = authed /\ pc' = "exit"
              /\ exc' = "IMAP4.error"
    /\ UNCHANGED <<mailbox, srvMsgs, srvFlags, flags0, readonly, loopVars,
                   fileVars, connOpened, logouts>>

\* Mutant: the mailbox is opened with SELECT.
SelectReadWrite == FALSE

\* The readonly argument of imap_conn.select.
SelectReadOnly == TRUE

\* imap_conn.select(MAILBOX_FOR_DOWNLOAD, readonly=True): EXAMINE.  An answer
\* NO is returned, not raised, and the program does not look at it.
Select ==
    /\ pc = "select"
    /\ cmds' = Append(cmds, Cmd(IF SelectReadOnly THEN "EXAMINE" ELSE "SELECT"))
    /\ \E r \in {"OK", "NO", "BAD"} :
         CASE r = "OK" -> /\ state' = "SELECTED"
                          /\ readonly' = SelectReadOnly
                          /\ pc' = "search"
                          /\ exc' = exc
           [] r = "NO" -> /\ state' = "AUTH"
                          /\ readonly' = readonly
                          /\ pc' = "search"
                          /\ exc' = exc
           [] OTHER    -> /\ state' = state
                          /\ readonly' = readonly
                          /\ pc' = "exit"
                          /\ exc' = "IMAP4.error"
    /\ UNCHANGED <<mailbox, srvMsgs, srvFlags, flags0, authed, loopVars,
                   fileVars, connOpened, logouts>>

\* _tmp, data = imap_conn.search(None, 'ALL'), and the evaluation of
\* data[0].split() that the for loop iterates.  imaplib refuses the command
\* outside the state SELECTED without sending it.  An answer NO is returned,
\* not raised: data[0] is then the text of the answer, whose words (here the
\* one word 0, which is no message number) become the list.
Search ==
    /\ pc = "search"
    /\ IF state # "SELECTED"
       THEN /\ pc' = "exit"
            /\ exc' = "IMAP4.error"
            /\ UNCHANGED <<cmds, ids, data, i>>
       ELSE /\ cmds' = Append(cmds, Cmd("SEARCH"))
            /\ \E r \in {"OK", "NO", "BAD"} :
                 CASE r = "OK" -> /\ data' = srvMsgs
                                  /\ ids' = srvMsgs
                                  /\ i' = 1
                                  /\ pc' = "loop"
                                  /\ exc' = exc
                   [] r = "NO" -> /\ data' = <<0>>
                                  /\ ids' = <<0>>
                                  /\ i' = 1
                                  /\ pc' = "loop"
                                  /\ exc' = exc
                   [] OTHER    -> /\ pc' = "exit"
                                  /\ exc' = "IMAP4.error"
                                  /\ UNCHANGED <<ids, data, i>>
    /\ UNCHANGED <<srvVars, registrations, origin, notices, handled, fileVars,
                   state, connOpened, logouts>>

(***************************************************************************)
(* The body of the for loop after the fetch: decode, parse, filter,        *)
(* extract.  The result is the new registrations and output, the exception *)
(* raised ("none"), and what happened to the message.                      *)
(***************************************************************************)
Raised(regs, out, e) == [regs |-> regs, out |-> out, exc |-> e, how |-> "crash"]

\* Mutant: a skipped message is dropped without the printed notice.
LoopBody_SilentSkip(m, regs, out) ==
    IF ~m.utf8 THEN Raised(regs, out, "UnicodeDecodeError")
    ELSE IF ~m.wellformed THEN Raised(regs, out, "MessageDefect")
    ELSE LET msg == message_from_string(m) IN
         IF check_if_message_to_skip(msg)
         THEN [regs |-> regs, out |-> out, exc |-> "none", how |-> "skip"]
         ELSE LET res == EXTRACTION_REGEXP_search(msg.text) IN
              IF ~res.matched
              THEN Raised(regs, out, "AttributeError")
              ELSE [regs |-> Append(regs, RegistrationData(res.groupdict)),
                    out |-> out, exc |-> "none", how |-> "collect"]

LoopBody(m, regs, out) ==
    IF ~m.utf8 THEN Raised(regs, out, "UnicodeDecodeError")
    ELSE IF ~m.wellformed THEN Raised(regs, out, "MessageDefect")
    ELSE LET msg == message_from_string(m) IN
         IF check_if_message_to_skip(msg)
         THEN [regs |-> regs, out |-> Append(out, SkipNotice(msg)),
               exc |-> "none", how |-> "skip"]
         ELSE LET res == EXTRACTION_REGEXP_search(msg.text) IN
              IF ~res.matched
              THEN Raised(regs, out, "AttributeError")
              ELSE [regs |-> Append(regs, RegistrationData(res.groupdict)),
                    out |-> out, exc |-> "none", how |-> "collect"]

\* Mutant: the loop reads the variable "data" anew in every pass, after the
\* fetch of the pass before has rebound it.
LoopIdx_Rebound(list, d, k) == IF k <= Len(d) THEN d[k] ELSE 0

\* The value of the loop variable idx in pass k: the k-th element of the
\* list that data[0].split() gave before the loop; d, the variable "data" as
\* the fetches have rebound it, is not read.
LoopIdx(list, d, k) == list[k]

\* Server: FETCH (RFC822) sets \Seen unless the mailbox was opened with EXAMINE.
FetchFlags(flags, idx) ==
    IF readonly THEN flags
    ELSE [flags EXCEPT ![idx] = flags[idx] \cup {"Seen"}]

\* One pass of the loop: _typ, data = imap_conn.fetch(idx, '(RFC822)'), then
\* the body.  The fetch fails when the connection breaks, when the server
\* answers BAD (always so for a message set that is no number) or when it
\* answers NO, which data[0][1] or decode then turns into an error.
ProcessMessage ==
    /\ pc = "loop"
    /\ i >= 1
    /\ i <= Len(ids)
    /\ LET idx == LoopIdx(ids, data, i) IN
       /\ cmds' = Append(cmds, Fetch(idx))
       /\ \E ok \in BOOLEAN :
            IF ok /\ idx \in Range(srvMsgs)
            THEN LET r == LoopBody(mailbox[idx], registrations, notices) IN
                 /\ srvFlags' = FetchFlags(srvFlags, idx)
                 /\ data' = <<idx>>
                 /\ registrations' = r.regs
                 /\ origin' = IF r.how = "collect" THEN Append(origin, idx)
                              ELSE origin
                 /\ notices' = r.out
                 /\ handled' = Append(handled, [id |-> idx, how |-> r.how])
                 /\ exc' = r.exc
                 /\ IF r.exc = "none"
                    THEN i' = i + 1 /\ pc' = "loop"
                    ELSE i' = i /\ pc' = "exit"
            ELSE /\ exc' = "IMAP4.error"
                 /\ pc' = "exit"
                 /\ UNCHANGED <<srvFlags, data, registrations, origin, notices,
                                handled, i>>
    /\ UNCHANGED <<mailbox, srvMsgs, flags0, readonly, authed, ids, fileVars,
                   state, connOpened, logouts>>

\* Server: CLOSE removes the \Deleted messages of a mailbox opened with SELECT.
Expunged(msgs) ==
    IF readonly THEN msgs
    ELSE SelectSeq(msgs, LAMBDA k : "Deleted" \notin srvFlags[k])

\* imap_conn.close(), after the loop has passed over the whole list.
Close ==
    /\ pc = "loop"
    /\ i > Len(ids)
    /\ cmds' = Append(cmds, Cmd("CLOSE"))
    /\ state' = "AUTH"
    /\ pc' = "exit"
    /\ \E ok \in BOOLEAN :
         IF ok
         THEN srvMsgs' = Expunged(srvMsgs) /\ exc' = exc
         ELSE srvMsgs' = srvMsgs /\ exc' = "IMAP4.error"
    /\ UNCHANGED <<mailbox, srvFlags, flags0, readonly, authed, loopVars,
                   fileVars, connOpened, logouts>>

\* Mutant: main writes the file whether or not the retrieval raised.
AfterRetrieve_Always(e) == "open"

\* main: write_registrations_to_csv runs only when
\* retrieve_registrations_from_server has returned.
AfterRetrieve(e) == IF e = "none" THEN "open" ELSE "failed"

\* Mutant: the logout is a statement at the end of the block, which an
\* exception skips.
SessionExit_NoLogoutOnError ==
    /\ pc = "exit"
    /\ IF exc # "none"
       THEN /\ pc' = AfterRetrieve(exc)
            /\ UNCHANGED <<state, cmds, logouts, exc>>
       ELSE /\ state' = "LOGOUT"
            /\ cmds' = Append(cmds, Cmd("LOGOUT"))
            /\ logouts' = logouts + 1
            /\ \E r \in {"BYE", "OSError", "IMAP4.abort"} :
                 /\ exc' = IF r = "IMAP4.abort" THEN r ELSE exc
                 /\ pc' = AfterRetrieve(exc')
    /\ UNCHANGED <<srvVars, loopVars, fileVars, connOpened>>

\* The end of the with statement, on return and on an exception:
\* IMAP4.__exit__ calls logout() unless the state is LOGOUT.  logout() sets the
\* state, sends LOGOUT and shuts the socket down; __exit__ swallows an OSError
\* of it, any other error of it propagates.
SessionExit ==
    /\ pc = "exit"
    /\ IF state = "LOGOUT"
       THEN /\ pc' = AfterRetrieve(exc)
            /\ UNCHANGED <<state, cmds, logouts, exc>>
       ELSE /\ state' = "LOGOUT"
            /\ cmds' = Append(cmds, Cmd("LOGOUT"))
            /\ logouts' = logouts + 1
            /\ \E r \in {"BYE", "OSError", "IMAP4.abort"} :
                 /\ exc' = IF r = "IMAP4.abort" THEN r ELSE exc
                 /\ pc' = AfterRetrieve(exc')
    /\ UNCHANGED <<srvVars, loopVars, fileVars, connOpened>>

(***************************************************************************)
(* write_registrations_to_csv                                              *)
(***************************************************************************)
\* with open(export_file_name, 'wt', newline='') as csv_file: creates or
\* truncates the file, or raises.
OpenFile ==
    /\ pc = "open"
    /\ \E ok \in BOOLEAN :
         IF ok
         THEN /\ fileLog' = Append(fileLog, "open")
              /\ csv' = <<>>
              /\ pc' = "header"
              /\ exc' = exc
         ELSE /\ exc' = "OSError"
              /\ pc' = "failed"
              /\ UNCHANGED fileVars
    /\ UNCHANGED <<srvVars, loopVars, state, cmds, connOpened, logouts>>

\* RegistrationData.write_header_to_csv(csv_writer)
WriteHeader ==
    /\ pc = "header"
    /\ fileLog' = Append(fileLog, "write")
    /\ \E ok \in BOOLEAN :
         IF ok
         THEN csv' = Append(csv, write_header_to_csv) /\ pc' = "rows" /\ exc' = exc
         ELSE csv' = csv /\ pc' = "fclose" /\ exc' = "OSError"
    /\ UNCHANGED <<srvVars, loopVars, state, cmds, connOpened, logouts>>

\* for entry in registrations: entry.write_to_csv(csv_writer).  The loop
\* writes the first n rows; a write that fails ends it with n short of the
\* list.
WriteEntries ==
    /\ pc = "rows"
    /\ \E n \in 0..Len(registrations) :
         /\ csv' = csv \o [k \in 1..n |-> write_to_csv(registrations[k])]
         /\ fileLog' = fileLog \o [k \in 1..n |-> "write"]
                        \o (IF n < Len(registrations) THEN <<"write">> ELSE <<>>)
         /\ exc' = IF n < Len(registrations) THEN "OSError" ELSE exc
    /\ pc' = "fclose"
    /\ UNCHANGED <<srvVars, loopVars, state, cmds, connOpened, logouts>>

\* Mutant: the file is closed by a statement at the end of the block, which
\* an exception skips.
FileExit_LeakOnError ==
    /\ pc = "fclose"
    /\ fileLog' = IF exc = "none" THEN Append(fileLog, "close") ELSE fileLog
    /\ pc' = IF exc = "none" THEN "done" ELSE "failed"
    /\ UNCHANGED <<srvVars, loopVars, state, cmds, connOpened, logouts, csv, exc>>

\* The end of the with statement of the file: the file is closed, on return
\* and on an exception.
FileExit ==
    /\ pc = "fclose"
    /\ fileLog' = Append(fileLog, "close")
    /\ pc' = IF exc = "none" THEN "done" ELSE "failed"
    /\ UNCHANGED <<srvVars, loopVars, state, cmds, connOpened, logouts, csv, exc>>

Next ==
    \/ Connect
    \/ Login
    \/ Select
    \/ Search
    \/ ProcessMessage
    \/ Close
    \/ SessionExit
    \/ OpenFile
    \/ WriteHeader
    \/ WriteEntries
    \/ FileExit

Spec == Init /\ [][Next]_vars

(***************************************************************************)
(* Properties.                                                             *)
(***************************************************************************)
Issued(name) == \E p \in 1..Len(cmds) : cmds[p].cmd = name
Count(log, x) == Cardinality({p \in 1..Len(log) : log[p] = x})
Finished == pc \in {"done", "failed"}

\* The session scope was entered and has been left.
ScopeExited ==
    connOpened = 1 /\ pc \in {"open", "header", "rows", "fclose", "done", "failed"}

\* The for loop has passed over the whole list.
LoopCompleted == i >= 1 /\ i > Len(ids)

\* The four headers of the message, as the server delivers them, are exactly
\* the configured strings.
WireListed(m) ==
    m.xef = ENVELOPE_FROM /\ m.xet = ENVELOPE_TO /\ m.hfrom = FROM /\ m.hto = TO

\* The text of the message matches the fixed pattern.
TextMatches(m) == EXTRACTION_REGEXP_search(m.text).matched

\* The message can be decoded and parsed.
Readable(m) == m.utf8 /\ m.wellformed

\* C1 as stated: once the session scope has been entered, every exit from it,
\* normal or by an error, has issued CLOSE and has logged the connection out.
C1_CloseAndLogoutOnEveryExit ==
    ScopeExited => Issued("CLOSE") /\ Issued("LOGOUT")

\* C1 amended: every exit from the session scope, normal or by an error, has
\* logged the connection out (one logout, the last command of the session);
\* CLOSE has been issued exactly when the loop had passed over the whole list,
\* so an exit by an error raised before the end of the loop issues no CLOSE.
C1_LogoutOnEveryExitCloseAfterLoop ==
    ScopeExited =>
        /\ logouts = 1
        /\ cmds[Len(cmds)] = Cmd("LOGOUT")
        /\ Issued("CLOSE") <=> LoopCompleted

\* An error raised inside the loop has ended the session: logged out, no CLOSE.
C1_Witness ==
    /\ ScopeExited
    /\ exc # "none"
    /\ Len(handled) >= 1
    /\ ~LoopCompleted
    /\ ~Issued("CLOSE")
    /\ cmds[Len(cmds)] = Cmd("LOGOUT")

\* C2: no partial output.  The file is opened, truncated or written only
\* when the loop has passed over the whole identifier list and every message
\* of it was fetched and processed without error; a run that has aborted
\* before that has not touched the file.
C2_NoPartialOutput ==
    /\ (fileLog # <<>> \/ csv # <<>>) =>
          /\ LoopCompleted
          /\ Len(handled) = Len(ids)
          /\ \A k \in 1..Len(ids) :
                handled[k].id = ids[k] /\ handled[k].how # "crash"
    /\ (pc = "failed" /\ ~LoopCompleted) => (fileLog = <<>> /\ csv = <<>>)

\* A run that has aborted in the middle of the mailbox, the file untouched.
C2_Witness ==
    /\ pc = "failed"
    /\ i >= 2
    /\ i <= Len(ids)
    /\ handled[Len(handled)].how = "crash"
    /\ fileLog = <<>>

\* C3: during the loop the notices printed plus the records collected equal
\* the number of messages processed so far, and in a run that has completed
\* the notices printed plus the data rows of the file (the header row not
\* counted) equal the number N of messages of the mailbox.
C3_NoticesPlusRowsIsN ==
    /\ i >= 1 => Len(notices) + Len(registrations) = i - 1
    /\ pc = "done" => Len(notices) + (Len(csv) - 1) = Len(mailbox)

\* A completed run over a mailbox of at least two messages.
C3_Witness ==
    /\ pc = "done"
    /\ Len(mailbox) >= 2
    /\ Len(notices) + (Len(csv) - 1) = Len(mailbox)

\* C4 as stated: a message of which one of the four header values differs
\* from its configured string is skipped (no record, one notice with its
\* envelope sender and recipient, the run goes on), and a message is skipped
\* only if one of its four header values differs.
C4_SkippedIffAHeaderDiffers ==
    /\ \A p \in 1..Len(handled) :
          LET m == mailbox[handled[p].id] IN
          Readable(m) =>
              /\ ~WireListed(m) => handled[p].how = "skip"
              /\ handled[p].how = "skip" => ~WireListed(m)
    /\ LET skipped == SelectSeq(handled, LAMBDA h : h.how = "skip") IN
       /\ Len(notices) = Len(skipped)
       /\ \A q \in 1..Len(skipped) :
             notices[q] = [from |-> mailbox[skipped[q].id].xef,
                           to |-> mailbox[skipped[q].id].xet]

\* C5 as stated: in a completed run the header row is the first row and is
\* written once, and every message whose four headers are exactly the
\* configured strings and whose text matches the pattern has exactly one data
\* row, whose 16 fields are the captured values in the fixed order.
C5_OneRowPerListedMatchingMessage ==
    pc = "done" =>
        /\ Len(csv) >= 1
        /\ csv[1] = FieldNames
        /\ Len(csv) = Len(origin) + 1
        /\ \A k \in 1..Len(mailbox) :
              (WireListed(mailbox[k]) /\ TextMatches(mailbox[k])) =>
                  /\ Cardinality({p \in 1..Len(origin) : origin[p] = k}) = 1
                  /\ \A p \in 1..Len(origin) :
                        origin[p] = k => csv[p + 1] = mailbox[k].text.fields

\* C9 as stated: a message whose four headers are the configured strings
\* but whose text does not match the pattern ends the run with an error at
\* that message: no record, no notice, no later fetch.
C9_MismatchCrashesTheRun ==
    \A p \in 1..Len(handled) :
        LET m == mailbox[handled[p].id] IN
        (Readable(m) /\ WireListed(m) /\ ~TextMatches(m)) =>
            /\ handled[p].how = "crash"
            /\ p = Len(handled)
            /\ exc # "none"
            /\ cmds[Len(cmds)].cmd \in {"FETCH", "LOGOUT"}

\* C7: the mailbox is opened read-only (EXAMINE, never SELECT), and at every
\* point of every run the messages of the mailbox and the flags of every
\* message are what they were before the run.
C7_ServerStateUnchanged ==
    /\ ~Issued("SELECT")
    /\ state = "SELECTED" => readonly
    /\ srvMsgs = [k \in 1..Len(mailbox) |-> k]
    /\ srvFlags = flags0

\* A completed run that fetched a message flagged \Deleted and issued CLOSE.
C7_Witness ==
    /\ pc = "done"
    /\ Issued("CLOSE")
    /\ \E p \in 1..Len(handled) :
          /\ "Deleted" \in flags0[handled[p].id]
          /\ "Seen" \notin flags0[handled[p].id]

\* C8: the session and the file are each acquired at most once; nothing is
\* done with either before it is acquired or after it is released; a run
\* that has ended, normally or by an error, has released each resource it
\* acquired exactly once.
C8_ScopedResources ==
    /\ connOpened <= 1
    /\ logouts <= connOpened
    /\ cmds # <<>> => connOpened = 1
    /\ Count(cmds, Cmd("LOGOUT")) = logouts
    /\ logouts = 1 => cmds[Len(cmds)] = Cmd("LOGOUT")
    /\ Count(fileLog, "open") <= 1
    /\ Count(fileLog, "close") <= Count(fileLog, "open")
    /\ fileLog # <<>> => fileLog[1] = "open"
    /\ Count(fileLog, "close") = 1 => fileLog[Len(fileLog)] = "close"
    /\ Finished => logouts = connOpened
    /\ Finished => Count(fileLog, "close") = Count(fileLog, "open")

\* A run whose session ended normally and whose file was closed on an error
\* of a write.
C8_Witness ==
    /\ pc = "failed"
    /\ logouts = 1
    /\ fileLog = <<"open", "write", "close">>

Rank(c) ==
    CASE c = "LOGIN" -> 1
      [] c = "EXAMINE" -> 2
      [] c = "SELECT" -> 2
      [] c = "SEARCH" -> 3
      [] c = "FETCH" -> 4
      [] c = "CLOSE" -> 5
      [] OTHER -> 6

Fetches == SelectSeq(cmds, LAMBDA c : c.cmd = "FETCH")

\* C10: the commands are issued in the order LOGIN, EXAMINE, SEARCH, FETCH
\* per message; EXAMINE, SEARCH and FETCH are issued only after a LOGIN that
\* succeeded; there is at most one SEARCH; the k-th FETCH is for the k-th
\* element of the list the SEARCH gave, whatever the fetches before it have
\* bound "data" to; and when the loop has ended without error there was one
\* SEARCH and every identifier it returned was fetched once, in its order,
\* and nothing else was.
C10_CommandOrder ==
    /\ \A p, q \in 1..Len(cmds) :
          p < q => \/ Rank(cmds[p].cmd) < Rank(cmds[q].cmd)
                   \/ cmds[p].cmd = "FETCH" /\ cmds[q].cmd = "FETCH"
    /\ \A p \in 1..Len(cmds) :
          cmds[p].cmd \in {"EXAMINE", "SELECT", "SEARCH", "FETCH"} =>
              authed /\ cmds[1] = Cmd("LOGIN")
    /\ Count(cmds, Cmd("SEARCH")) <= 1
    /\ Len(Fetches) <= Len(ids)
    /\ \A k \in 1..Len(Fetches) : Fetches[k] = Fetch(ids[k])
    /\ (LoopCompleted /\ exc = "none") =>
          /\ Count(cmds, Cmd("SEARCH")) = 1
          /\ ids = [k \in 1..Len(mailbox) |-> k]
          /\ Fetches = [k \in 1..Len(ids) |-> Fetch(ids[k])]

\* A completed run that fetched at least two messages.
C10_Witness ==
    /\ pc = "done"
    /\ Len(ids) >= 2
    /\ Len(Fetches) = Len(ids)

====
